---------------------------- MODULE Spec2Model ----------------------------
(***************************************************************************)
(* ALBA pricing dashboard: the calculation engine of calculations.py and   *)
(* the engine inlined in streamlit_app.py.                                 *)
(*                                                                         *)
(* Numbers.  A Python float is modelled as an exact rational n/d (d > 0,   *)
(* lowest terms) extended with the IEEE specials the code produces:        *)
(* +inf / -inf (float("inf")), nan (inf * 0, inf - inf) and "err", the     *)
(* ZeroDivisionError Python raises on a division by a zero divisor, which  *)
(* aborts the computation and therefore propagates through every later     *)
(* operation.  Binary rounding of finite values is abstracted away: an     *)
(* equality of finite values below is the "equal up to floating-point      *)
(* tolerance" of the specification.                                        *)
(***************************************************************************)
EXTENDS Integers, Sequences, FiniteSets, TLC

VARIABLE call

vars == <<call>>

---------------------------------------------------------------------------
(* Float values *)

Abs(x) == IF x < 0 THEN -x ELSE x

RECURSIVE Gcd(_, _)
Gcd(a, b) == IF b = 0 THEN a ELSE Gcd(b, a % b)

Sgn(x) == IF x > 0 THEN 1 ELSE IF x < 0 THEN -1 ELSE 0

Fin(n, d) ==
    LET s == IF d < 0 THEN -1 ELSE 1
        g == Gcd(Abs(n), Abs(d))
    IN  [k |-> "fin", n |-> (s * n) \div g, d |-> (s * d) \div g]

Num(i) == [k |-> "fin", n |-> i, d |-> 1]

Inf(s) == [k |-> "inf", n |-> s, d |-> 0]

PosInf == Inf(1)

NaN == [k |-> "nan", n |-> 0, d |-> 0]

Err == [k |-> "err", n |-> 0, d |-> 0]

Zero == Num(0)

IsFin(a) == a.k = "fin"

Bad(a, b) == IF a.k = "err" \/ b.k = "err" THEN Err ELSE NaN

Special(a, b) == a.k \in {"err", "nan"} \/ b.k \in {"err", "nan"}

\* a < b, a == b as Python compares floats: every comparison with nan is False
FLt(a, b) ==
    IF Special(a, b) THEN FALSE
    ELSE IF a.k = "inf" THEN a.n < 0 /\ ~(b.k = "inf" /\ b.n < 0)
    ELSE IF b.k = "inf" THEN b.n > 0
    ELSE LET g == Gcd(a.d, b.d) IN a.n * (b.d \div g) < b.n * (a.d \div g)

FEq(a, b) == ~Special(a, b) /\ a = b

FLe(a, b) == FLt(a, b) \/ FEq(a, b)

FNeg(a) == IF a.k \in {"fin", "inf"} THEN [a EXCEPT !.n = -a.n] ELSE a

FAdd(a, b) ==
    IF Special(a, b) THEN Bad(a, b)
    ELSE IF a.k = "inf" THEN (IF b.k = "inf" /\ b.n # a.n THEN NaN ELSE a)
    ELSE IF b.k = "inf" THEN b
    ELSE LET g == Gcd(a.d, b.d)
         IN  Fin(a.n * (b.d \div g) + b.n * (a.d \div g), (a.d \div g) * b.d)

FSub(a, b) == FAdd(a, FNeg(b))

FMul(a, b) ==
    IF Special(a, b) THEN Bad(a, b)
    ELSE IF a.k = "inf" \/ b.k = "inf"
         THEN (IF a.n = 0 \/ b.n = 0 THEN NaN ELSE Inf(Sgn(a.n) * Sgn(b.n)))
    ELSE LET g1 == Gcd(Abs(a.n), b.d)
             g2 == Gcd(Abs(b.n), a.d)
         IN  Fin((a.n \div g1) * (b.n \div g2), (a.d \div g2) * (b.d \div g1))

\* a / b: a zero divisor raises ZeroDivisionError
FDiv(a, b) ==
    IF Special(a, b) THEN Bad(a, b)
    ELSE IF b.k = "fin" /\ b.n = 0 THEN Err
    ELSE IF b.k = "inf" THEN (IF a.k = "inf" THEN NaN ELSE Zero)
    ELSE IF a.k = "inf" THEN Inf(a.n * Sgn(b.n))
    ELSE FMul(a, Fin(b.d, b.n))

\* max(a, b), min(a, b): the first argument unless the second is strictly beyond it
PyMax(a, b) == IF a.k = "err" \/ b.k = "err" THEN Err ELSE IF FLt(a, b) THEN b ELSE a

PyMin(a, b) == IF a.k = "err" \/ b.k = "err" THEN Err ELSE IF FLt(b, a) THEN b ELSE a

---------------------------------------------------------------------------
(* calculations.py *)

HST_RATE == Fin(13, 100)

FULL_TIME_DAYS == 5

One == Num(1)

Hundred == Num(100)

Twelve == Num(12)

MarginCap == Fin(95, 100)

\* the allocation as streamlit_app.py computes it: salary * (days / 5), unclamped
allocated_manager_cost_unclamped(manager_salary_annual, manager_days_per_week, baseline_days) ==
    FMul(manager_salary_annual, FDiv(manager_days_per_week, baseline_days))

allocated_manager_cost(manager_salary_annual, manager_days_per_week, baseline_days) ==
    LET frac == IF FLe(baseline_days, Zero) THEN Zero
                ELSE PyMax(Zero, PyMin(FDiv(manager_days_per_week, baseline_days), One))
    IN  FMul(manager_salary_annual, frac)

annual_expenses_total_unclamped(manager_salary_annual, manager_days_per_week, accounting_fees_annual, head_office_time_annual, fixed_overhead_annual) ==
    FAdd(FAdd(FAdd(allocated_manager_cost_unclamped(manager_salary_annual,
                                                    manager_days_per_week,
                                                    Num(FULL_TIME_DAYS)),
                   accounting_fees_annual),
              head_office_time_annual),
         fixed_overhead_annual)

annual_expenses_total(manager_salary_annual, manager_days_per_week, accounting_fees_annual, head_office_time_annual, fixed_overhead_annual) ==
    FAdd(FAdd(FAdd(allocated_manager_cost(manager_salary_annual, manager_days_per_week,
                                          Num(FULL_TIME_DAYS)),
                   accounting_fees_annual),
              head_office_time_annual),
         fixed_overhead_annual)

\* the solver with the units guard coercing to a zero fee
required_fee_zero_units(units, expenses_annual, target_margin_pct) ==
    LET m == PyMax(Zero, PyMin(FDiv(target_margin_pct, Hundred), MarginCap))
        required_annual_revenue ==
            IF FSub(One, m) # Zero THEN FDiv(expenses_annual, FSub(One, m)) ELSE PosInf
    IN  IF units <= 0 THEN Zero
        ELSE FDiv(required_annual_revenue, FMul(Num(units), Twelve))

\* the solver with the target margin capped at 100% instead of 95%
required_fee_cap_100(units, expenses_annual, target_margin_pct) ==
    LET m == PyMax(Zero, PyMin(FDiv(target_margin_pct, Hundred), One))
        required_annual_revenue ==
            IF FSub(One, m) # Zero THEN FDiv(expenses_annual, FSub(One, m)) ELSE PosInf
    IN  IF units <= 0 THEN PosInf
        ELSE FDiv(required_annual_revenue, FMul(Num(units), Twelve))

\* the solver marking expenses up by m instead of dividing by 1 - m
required_fee_markup(units, expenses_annual, target_margin_pct) ==
    LET m == PyMax(Zero, PyMin(FDiv(target_margin_pct, Hundred), MarginCap))
        required_annual_revenue == FMul(expenses_annual, FAdd(One, m))
    IN  IF units <= 0 THEN PosInf
        ELSE FDiv(required_annual_revenue, FMul(Num(units), Twelve))

\* the solver returning a monthly fee for the whole property (the division by the
\* unit count forgotten)
required_fee_per_property(units, expenses_annual, target_margin_pct) ==
    LET m == PyMax(Zero, PyMin(FDiv(target_margin_pct, Hundred), MarginCap))
        required_annual_revenue ==
            IF FSub(One, m) # Zero THEN FDiv(expenses_annual, FSub(One, m)) ELSE PosInf
    IN  IF units <= 0 THEN PosInf
        ELSE FDiv(required_annual_revenue, Twelve)

required_fee_for_margin(units, expenses_annual, target_margin_pct) ==
    LET m == PyMax(Zero, PyMin(FDiv(target_margin_pct, Hundred), MarginCap))
        required_annual_revenue ==
            IF FSub(One, m) # Zero THEN FDiv(expenses_annual, FSub(One, m)) ELSE PosInf
    IN  IF units <= 0 THEN PosInf
        ELSE FDiv(required_annual_revenue, FMul(Num(units), Twelve))

\* the margin without the zero-revenue branch
margin_from_fee_unguarded(units, fee_per_unit_month, expenses_annual) ==
    LET annual_revenue_subtotal == FMul(FMul(fee_per_unit_month, Num(units)), Twelve)
        profit == FSub(annual_revenue_subtotal, expenses_annual)
    IN  FMul(FDiv(profit, annual_revenue_subtotal), Hundred)

\* the margin with the page's guard: 0 for units <= 0 whatever the fee is
margin_from_fee_units_guard(units, fee_per_unit_month, expenses_annual) ==
    LET annual_revenue_subtotal == FMul(FMul(fee_per_unit_month, Num(units)), Twelve)
        profit == FSub(annual_revenue_subtotal, expenses_annual)
    IN  IF units <= 0 THEN Zero
        ELSE IF FEq(annual_revenue_subtotal, Zero) THEN Zero
        ELSE FMul(FDiv(profit, annual_revenue_subtotal), Hundred)

margin_from_fee(units, fee_per_unit_month, expenses_annual) ==
    LET annual_revenue_subtotal == FMul(FMul(fee_per_unit_month, Num(units)), Twelve)
        profit == FSub(annual_revenue_subtotal, expenses_annual)
    IN  IF FEq(annual_revenue_subtotal, Zero) THEN Zero
        ELSE FMul(FDiv(profit, annual_revenue_subtotal), Hundred)

CoreResult(monthly_rev_subtotal, monthly_hst, monthly_rev_total, annual_rev_subtotal, annual_hst, annual_rev_total, exp_annual, exp_monthly, monthly_profit, annual_profit, actual_margin_pct) ==
    [monthly_rev_subtotal |-> monthly_rev_subtotal,
     monthly_hst          |-> monthly_hst,
     monthly_rev_total    |-> monthly_rev_total,
     annual_rev_subtotal  |-> annual_rev_subtotal,
     annual_hst           |-> annual_hst,
     annual_rev_total     |-> annual_rev_total,
     exp_annual           |-> exp_annual,
     exp_monthly          |-> exp_monthly,
     monthly_profit       |-> monthly_profit,
     annual_profit        |-> annual_profit,
     actual_margin_pct    |-> actual_margin_pct]

\* the rollup with the tax charged on the tax-inclusive total
compute_core_tax_on_total(rate, units, fee_per_unit_month, expenses_annual) ==
    LET monthly_rev_subtotal == FMul(fee_per_unit_month, Num(units))
        annual_rev_subtotal  == FMul(monthly_rev_subtotal, Twelve)
        monthly_hst          == FMul(FMul(monthly_rev_subtotal, FAdd(One, rate)), rate)
        annual_hst           == FMul(FMul(annual_rev_subtotal, FAdd(One, rate)), rate)
        monthly_rev_total    == FAdd(monthly_rev_subtotal, monthly_hst)
        annual_rev_total     == FAdd(annual_rev_subtotal, annual_hst)
        exp_annual           == expenses_annual
        exp_monthly          == FDiv(exp_annual, Twelve)
        monthly_profit       == FSub(monthly_rev_subtotal, exp_monthly)
        annual_profit        == FSub(annual_rev_subtotal, exp_annual)
        actual_margin_pct    == IF FEq(annual_rev_subtotal, Zero) THEN Zero
                                ELSE FMul(FDiv(annual_profit, annual_rev_subtotal), Hundred)
    IN  CoreResult(monthly_rev_subtotal, monthly_hst, monthly_rev_total,
                   annual_rev_subtotal, annual_hst, annual_rev_total, exp_annual,
                   exp_monthly, monthly_profit, annual_profit, actual_margin_pct)

\* the rollup with profit taken from the tax-inclusive totals
compute_core_profit_with_tax(rate, units, fee_per_unit_month, expenses_annual) ==
    LET monthly_rev_subtotal == FMul(fee_per_unit_month, Num(units))
        annual_rev_subtotal  == FMul(monthly_rev_subtotal, Twelve)
        monthly_hst          == FMul(monthly_rev_subtotal, rate)
        annual_hst           == FMul(annual_rev_subtotal, rate)
        monthly_rev_total    == FAdd(monthly_rev_subtotal, monthly_hst)
        annual_rev_total     == FAdd(annual_rev_subtotal, annual_hst)
        exp_annual           == expenses_annual
        exp_monthly          == FDiv(exp_annual, Twelve)
        monthly_profit       == FSub(monthly_rev_total, exp_monthly)
        annual_profit        == FSub(annual_rev_total, exp_annual)
        actual_margin_pct    == IF FEq(annual_rev_subtotal, Zero) THEN Zero
                                ELSE FMul(FDiv(annual_profit, annual_rev_subtotal), Hundred)
    IN  CoreResult(monthly_rev_subtotal, monthly_hst, monthly_rev_total,
                   annual_rev_subtotal, annual_hst, annual_rev_total, exp_annual,
                   exp_monthly, monthly_profit, annual_profit, actual_margin_pct)

\* the rollup with the margin taken on cost (profit over expenses) instead of revenue
compute_core_margin_on_cost(rate, units, fee_per_unit_month, expenses_annual) ==
    LET monthly_rev_subtotal == FMul(fee_per_unit_month, Num(units))
        annual_rev_subtotal  == FMul(monthly_rev_subtotal, Twelve)
        monthly_hst          == FMul(monthly_rev_subtotal, rate)
        annual_hst           == FMul(annual_rev_subtotal, rate)
        monthly_rev_total    == FAdd(monthly_rev_subtotal, monthly_hst)
        annual_rev_total     == FAdd(annual_rev_subtotal, annual_hst)
        exp_annual           == expenses_annual
        exp_monthly          == FDiv(exp_annual, Twelve)
        monthly_profit       == FSub(monthly_rev_subtotal, exp_monthly)
        annual_profit        == FSub(annual_rev_subtotal, exp_annual)
        actual_margin_pct    == IF FEq(annual_rev_subtotal, Zero) THEN Zero
                                ELSE FMul(FDiv(annual_profit, exp_annual), Hundred)
    IN  CoreResult(monthly_rev_subtotal, monthly_hst, monthly_rev_total,
                   annual_rev_subtotal, annual_hst, annual_rev_total, exp_annual,
                   exp_monthly, monthly_profit, annual_profit, actual_margin_pct)

\* compute_core with the module-level tax rate as a parameter
compute_core_at(rate, units, fee_per_unit_month, expenses_annual) ==
    LET monthly_rev_subtotal == FMul(fee_per_unit_month, Num(units))
        annual_rev_subtotal  == FMul(monthly_rev_subtotal, Twelve)
        monthly_hst          == FMul(monthly_rev_subtotal, rate)
        annual_hst           == FMul(annual_rev_subtotal, rate)
        monthly_rev_total    == FAdd(monthly_rev_subtotal, monthly_hst)
        annual_rev_total     == FAdd(annual_rev_subtotal, annual_hst)
        exp_annual           == expenses_annual
        exp_monthly          == FDiv(exp_annual, Twelve)
        monthly_profit       == FSub(monthly_rev_subtotal, exp_monthly)
        annual_profit        == FSub(annual_rev_subtotal, exp_annual)
        actual_margin_pct    == IF FEq(annual_rev_subtotal, Zero) THEN Zero
                                ELSE FMul(FDiv(annual_profit, annual_rev_subtotal), Hundred)
    IN  CoreResult(monthly_rev_subtotal, monthly_hst, monthly_rev_total,
                   annual_rev_subtotal, annual_hst, annual_rev_total, exp_annual,
                   exp_monthly, monthly_profit, annual_profit, actual_margin_pct)

compute_core(units, fee_per_unit_month, expenses_annual) ==
    compute_core_at(HST_RATE, units, fee_per_unit_month, expenses_annual)

\* the loop body of projection, for yr in range(yr, last + 1)
RECURSIVE projection_loop(_, _, _, _, _, _, _)
projection_loop(yr, last, fee, units, growth_pct, expenses_annual, out) ==
    IF yr > last THEN out
    ELSE LET annual_rev == FMul(FMul(fee, Num(units)), Twelve)
             profit     == FSub(annual_rev, expenses_annual)
         IN  projection_loop(yr + 1, last, FMul(fee, FAdd(One, growth_pct)), units,
                             growth_pct, expenses_annual,
                             [fees     |-> Append(out.fees, fee),
                              revenues |-> Append(out.revenues, annual_rev),
                              expenses |-> Append(out.expenses, expenses_annual),
                              profits  |-> Append(out.profits, profit)])

NoSeries == [fees |-> <<>>, revenues |-> <<>>, expenses |-> <<>>, profits |-> <<>>]

\* the projection with the loop bound off by one: range(1, years)
projection_short(units, start_fee_per_unit_month, years, growth_pct, expenses_annual) ==
    projection_loop(1, years - 1, start_fee_per_unit_month, units, growth_pct,
                    expenses_annual, NoSeries)

\* the projection with additive growth: each year adds growth_pct of the start fee
RECURSIVE projection_loop_additive(_, _, _, _, _, _, _, _)
projection_loop_additive(yr, last, fee, step, units, growth_pct, expenses_annual, out) ==
    IF yr > last THEN out
    ELSE LET annual_rev == FMul(FMul(fee, Num(units)), Twelve)
             profit     == FSub(annual_rev, expenses_annual)
         IN  projection_loop_additive(yr + 1, last, FAdd(fee, step), step, units,
                                      growth_pct, expenses_annual,
                                      [fees     |-> Append(out.fees, fee),
                                       revenues |-> Append(out.revenues, annual_rev),
                                       expenses |-> Append(out.expenses, expenses_annual),
                                       profits  |-> Append(out.profits, profit)])

projection_additive(units, start_fee_per_unit_month, years, growth_pct, expenses_annual) ==
    projection_loop_additive(1, years, start_fee_per_unit_month,
                             FMul(start_fee_per_unit_month, growth_pct), units,
                             growth_pct, expenses_annual, NoSeries)

projection(units, start_fee_per_unit_month, years, growth_pct, expenses_annual) ==
    projection_loop(1, years, start_fee_per_unit_month, units, growth_pct,
                    expenses_annual, NoSeries)

---------------------------------------------------------------------------
(* Inputs of the calls: every function takes plain numbers and validates    *)
(* nothing, so the domains hold negative, zero and out-of-range values.     *)

MaxUnits == 2

MaxYears == 3

UnitsDomain == (-1 .. MaxUnits) \cup {100}

YearsDomain == 0 .. MaxYears

SalaryDomain == {Num(-1000), Zero, Num(90000)}

DaysDomain == {Num(-1), Zero, One, Num(2), Fin(5, 2), Num(5), Num(6)}

BaselineDomain == {Num(-1), Zero, Num(4), Num(5)}

AccountingDomain == {Num(-12000), Zero, Num(12000)}

HeadOfficeDomain == {Zero, Num(18000)}

FixedOverheadDomain == {Zero, Num(30000)}

ExpensesDomain == {Num(-12000), Zero, Num(100), Num(78000), Num(150000)}

TargetDomain == {Num(-5), Zero, Fin(25, 2), Num(20), Num(50), Num(95), Num(100), Num(120)}

FeeInputs == {Num(-5), Zero, Num(75), Fin(15625, 100)}

GrowthDomain == {Zero, Fin(1, 10), Fin(1, 4)}

TaxRates == {Zero, Fin(5, 100), HST_RATE, Fin(15, 100)}

\* the fees the solver hands to the rollup in Target Margin mode
SolvedFees ==
    {required_fee_for_margin(u, e, t) : u \in UnitsDomain, e \in ExpensesDomain,
                                        t \in TargetDomain}

FeeDomain == FeeInputs \cup SolvedFees

---------------------------------------------------------------------------
(* streamlit_app.py: the engine inlined in the page, the currency format    *)
(* and one run of the script over the widget values.                       *)

\* f"{x:,.2f}" of x >= 0: the amount in cents, rounded half to even; inf and nan
\* are printed by name
Fmt2(x) ==
    IF x.k = "fin"
    THEN LET c == FMul(x, Hundred)
             q == c.n \div c.d
             r == 2 * (c.n % c.d)
         IN  [body |-> "num",
              cents |-> IF r > c.d \/ (r = c.d /\ q % 2 = 1) THEN q + 1 ELSE q]
    ELSE [body |-> x.k, cents |-> 0]

FAbs(x) == IF x.k \in {"fin", "inf"} /\ x.n < 0 THEN FNeg(x) ELSE x

cad(x) ==
    IF FLt(x, Zero) THEN [prefix |-> "-C$", amount |-> Fmt2(FAbs(x))]
    ELSE [prefix |-> "C$", amount |-> Fmt2(x)]

\* f"{margin:.2f}%" with its own sign
PctText(x) ==
    [prefix |-> IF FLt(x, Zero) THEN "-" ELSE "", amount |-> Fmt2(FAbs(x))]

IntMax(a, b) == IF a > b THEN a ELSE b

Five == Num(5)

\* the metrics with profit taken from the totals billed with HST
compute_metrics_profit_with_tax(units_in, fee_per_unit_month, manager_salary_annual, manager_days_per_week, accounting_fees_annual, head_office_annual, fixed_overhead_annual) ==
    LET units         == IntMax(0, units_in)
        m_rev_sub     == FMul(fee_per_unit_month, Num(units))
        a_rev_sub     == FMul(m_rev_sub, Twelve)
        m_hst         == FMul(m_rev_sub, HST_RATE)
        a_hst         == FMul(a_rev_sub, HST_RATE)
        m_rev_tot     == FAdd(m_rev_sub, m_hst)
        a_rev_tot     == FAdd(a_rev_sub, a_hst)
        manager_alloc == FMul(manager_salary_annual, FDiv(manager_days_per_week, Five))
        a_exp         == FAdd(FAdd(FAdd(manager_alloc, accounting_fees_annual),
                                   head_office_annual),
                              fixed_overhead_annual)
        m_exp         == FDiv(a_exp, Twelve)
        a_profit      == FSub(a_rev_tot, a_exp)
        m_profit      == FSub(m_rev_tot, m_exp)
    IN  [m_rev_sub |-> m_rev_sub, a_rev_sub |-> a_rev_sub,
         m_hst |-> m_hst, a_hst |-> a_hst,
         m_rev_tot |-> m_rev_tot, a_rev_tot |-> a_rev_tot,
         manager_alloc |-> manager_alloc,
         a_exp |-> a_exp, m_exp |-> m_exp,
         a_profit |-> a_profit, m_profit |-> m_profit]

compute_metrics(units_in, fee_per_unit_month, manager_salary_annual, manager_days_per_week, accounting_fees_annual, head_office_annual, fixed_overhead_annual) ==
    LET units         == IntMax(0, units_in)
        m_rev_sub     == FMul(fee_per_unit_month, Num(units))
        a_rev_sub     == FMul(m_rev_sub, Twelve)
        m_hst         == FMul(m_rev_sub, HST_RATE)
        a_hst         == FMul(a_rev_sub, HST_RATE)
        m_rev_tot     == FAdd(m_rev_sub, m_hst)
        a_rev_tot     == FAdd(a_rev_sub, a_hst)
        manager_alloc == FMul(manager_salary_annual, FDiv(manager_days_per_week, Five))
        a_exp         == FAdd(FAdd(FAdd(manager_alloc, accounting_fees_annual),
                                   head_office_annual),
                              fixed_overhead_annual)
        m_exp         == FDiv(a_exp, Twelve)
        a_profit      == FSub(a_rev_sub, a_exp)
        m_profit      == FSub(m_rev_sub, m_exp)
    IN  [m_rev_sub |-> m_rev_sub, a_rev_sub |-> a_rev_sub,
         m_hst |-> m_hst, a_hst |-> a_hst,
         m_rev_tot |-> m_rev_tot, a_rev_tot |-> a_rev_tot,
         manager_alloc |-> manager_alloc,
         a_exp |-> a_exp, m_exp |-> m_exp,
         a_profit |-> a_profit, m_profit |-> m_profit]

\* the page's solver prorating the salary over a 7-day week
app_required_fee_seven_days(target_margin_pct, units, manager_salary_annual, manager_days_per_week, accounting_fees_annual, head_office_annual, fixed_overhead_annual) ==
    LET manager_alloc == FMul(manager_salary_annual, FDiv(manager_days_per_week, Num(7)))
        a_exp         == FAdd(FAdd(FAdd(manager_alloc, accounting_fees_annual),
                                   head_office_annual),
                              fixed_overhead_annual)
        m             == PyMax(Zero, PyMin(MarginCap, FDiv(target_margin_pct, Hundred)))
        req_a_rev     == FDiv(a_exp, FSub(One, m))
    IN  IF units <= 0 THEN PosInf
        ELSE IF FEq(FSub(One, m), Zero) THEN PosInf
        ELSE FDiv(req_a_rev, FMul(Num(units), Twelve))

app_required_fee_for_margin(target_margin_pct, units, manager_salary_annual, manager_days_per_week, accounting_fees_annual, head_office_annual, fixed_overhead_annual) ==
    LET manager_alloc == FMul(manager_salary_annual, FDiv(manager_days_per_week, Five))
        a_exp         == FAdd(FAdd(FAdd(manager_alloc, accounting_fees_annual),
                                   head_office_annual),
                              fixed_overhead_annual)
        m             == PyMax(Zero, PyMin(MarginCap, FDiv(target_margin_pct, Hundred)))
        req_a_rev     == FDiv(a_exp, FSub(One, m))
    IN  IF units <= 0 THEN PosInf
        ELSE IF FEq(FSub(One, m), Zero) THEN PosInf
        ELSE FDiv(req_a_rev, FMul(Num(units), Twelve))

app_margin_from_fee(fee_per_unit_month, units, manager_salary_annual, manager_days_per_week, accounting_fees_annual, head_office_annual, fixed_overhead_annual) ==
    LET a_rev_sub     == FMul(FMul(fee_per_unit_month, Num(units)), Twelve)
        manager_alloc == FMul(manager_salary_annual, FDiv(manager_days_per_week, Five))
        a_exp         == FAdd(FAdd(FAdd(manager_alloc, accounting_fees_annual),
                                   head_office_annual),
                              fixed_overhead_annual)
        a_profit      == FSub(a_rev_sub, a_exp)
    IN  IF units <= 0 THEN Zero
        ELSE IF FEq(a_rev_sub, Zero) THEN Zero
        ELSE FMul(FDiv(a_profit, a_rev_sub), Hundred)

\* the profit projection loop under the bar chart, for each of the year labels
RECURSIVE app_profits(_, _, _, _, _, _)
app_profits(n, fee_year, units, a_exp, growth_rate, profits) ==
    IF n = 0 THEN profits
    ELSE LET a_rev    == FMul(FMul(fee_year, Num(units)), Twelve)
             a_profit == FSub(a_rev, a_exp)
         IN  app_profits(n - 1,
                         FMul(fee_year, FAdd(One, FDiv(growth_rate, Hundred))),
                         units, a_exp, growth_rate, Append(profits, a_profit))

\* the widgets' values: each number_input keeps its value within min_value..max_value
AppUnits == (0 .. MaxUnits) \cup {100}

AppTargets == {Zero, Fin(25, 2), Num(20), Num(95)}

AppSalaries == {Zero, Num(90000)}

AppDays == {Num(i) : i \in 1 .. 5}

AppAccounting == {Zero, Num(12000)}

AppGrowth == {Zero, Num(10)}

AppYears == 1 .. MaxYears

\* one run of the script: mode dispatch, metrics, break-even fee, KPI row, charts,
\* P&L and the warning
ScriptRun(mode, target_margin, fee_input, units, manager_salary, manager_days, accounting, head_office, fixed_overhead, growth_rate, years) ==
    LET fee    == IF mode = "Target Margin"
                  THEN app_required_fee_for_margin(target_margin, units, manager_salary,
                                                   manager_days, accounting, head_office,
                                                   fixed_overhead)
                  ELSE fee_input
        margin == IF mode = "Target Margin" THEN target_margin
                  ELSE app_margin_from_fee(fee, units, manager_salary, manager_days,
                                           accounting, head_office, fixed_overhead)
        M      == compute_metrics(units, fee, manager_salary, manager_days, accounting,
                                  head_office, fixed_overhead)
        break_even_fee ==
            app_required_fee_for_margin(Zero, units, manager_salary, manager_days,
                                        accounting, head_office, fixed_overhead)
        profits == app_profits(years, fee, units, M.a_exp, growth_rate, <<>>)
    IN  [fn   |-> "streamlit_app",
         args |-> [mode |-> mode, units |-> units, manager_salary |-> manager_salary,
                   target_margin |-> IF mode = "Target Margin" THEN target_margin ELSE NaN,
                   fee_input |-> IF mode = "Target Margin" THEN NaN ELSE fee_input,
                   manager_days |-> manager_days, accounting |-> accounting,
                   head_office |-> head_office, fixed_overhead |-> fixed_overhead,
                   growth_rate |-> growth_rate, years |-> years],
         fee            |-> fee,
         margin         |-> margin,
         M              |-> M,
         break_even_fee |-> break_even_fee,
         kpi_fee        |-> cad(fee),
         kpi_margin     |-> [cls  |-> IF FLe(Zero, margin) THEN "good" ELSE "bad",
                             text |-> PctText(margin)],
         kpi_profit     |-> <<cad(M.m_profit), cad(M.a_profit)>>,
         profits        |-> profits,
         bar_text       |-> [i \in 1 .. Len(profits) |-> cad(profits[i])],
         error          |-> FLt(M.a_profit, Zero)]

---------------------------------------------------------------------------
(* One action per function of calculations.py: the call with its arguments *)
(* and the value it returns.                                               *)

NoCall == [fn |-> "none"]

AllocatedManagerCost ==
    /\ call = NoCall
    /\ \E s \in SalaryDomain, dd \in DaysDomain, b \in BaselineDomain :
        /\ call' = [fn   |-> "allocated_manager_cost",
                    args |-> [salary |-> s, days |-> dd, baseline |-> b],
                    ret  |-> allocated_manager_cost(s, dd, b)]

AnnualExpensesTotal ==
    /\ call = NoCall
    /\ \E s \in SalaryDomain, dd \in DaysDomain, a \in AccountingDomain,
       h \in HeadOfficeDomain, f \in FixedOverheadDomain :
        /\ call' = [fn   |-> "annual_expenses_total",
                    args |-> [salary |-> s, days |-> dd, accounting |-> a,
                              head_office |-> h, fixed_overhead |-> f],
                    ret  |-> annual_expenses_total(s, dd, a, h, f)]

RequiredFeeForMargin ==
    /\ call = NoCall
    /\ \E u \in UnitsDomain, e \in ExpensesDomain, t \in TargetDomain :
        /\ call' = [fn   |-> "required_fee_for_margin",
                    args |-> [units |-> u, expenses |-> e, target |-> t],
                    ret  |-> required_fee_for_margin(u, e, t)]

MarginFromFee ==
    /\ call = NoCall
    /\ \E u \in UnitsDomain, fee \in FeeDomain, e \in ExpensesDomain :
        /\ call' = [fn   |-> "margin_from_fee",
                    args |-> [units |-> u, fee |-> fee, expenses |-> e],
                    ret  |-> margin_from_fee(u, fee, e)]

ComputeCore ==
    /\ call = NoCall
    /\ \E u \in UnitsDomain, fee \in FeeDomain, e \in ExpensesDomain :
        /\ call' = [fn   |-> "compute_core",
                    args |-> [units |-> u, fee |-> fee, expenses |-> e],
                    ret  |-> compute_core(u, fee, e)]

Projection ==
    /\ call = NoCall
    /\ \E u \in UnitsDomain, fee \in FeeInputs, y \in YearsDomain, g \in GrowthDomain,
       e \in ExpensesDomain :
        /\ call' = [fn   |-> "projection",
                    args |-> [units |-> u, fee |-> fee, years |-> y, growth |-> g,
                              expenses |-> e],
                    ret  |-> projection(u, fee, y, g, e)]

\* the page is run on the widgets' current values
StreamlitApp ==
    /\ call = NoCall
    /\ \E u \in AppUnits, s \in AppSalaries, dd \in AppDays, a \in AppAccounting,
          h \in HeadOfficeDomain, f \in FixedOverheadDomain, g \in AppGrowth,
          y \in AppYears :
          \/ \E t \in AppTargets :
                call' = ScriptRun("Target Margin", t, NaN, u, s, dd, a, h, f, g, y)
          \/ \E fi \in FeeInputs :
                call' = ScriptRun("Price per unit", NaN, fi, u, s, dd, a, h, f, g, y)

\* the caller takes the returned value; the next call starts afresh
Return ==
    /\ call # NoCall
    /\ call' = NoCall

Init == call = NoCall

Next ==
    \/ AllocatedManagerCost
    \/ AnnualExpensesTotal
    \/ RequiredFeeForMargin
    \/ MarginFromFee
    \/ ComputeCore
    \/ Projection
    \/ StreamlitApp
    \/ Return

Spec == Init /\ [][Next]_vars

---------------------------------------------------------------------------
(* Properties *)

IsCall(f) == call.fn = f

\* the fee of the call is the one the solver returns for target m on the call's
\* units and expenses
FeeSolvedFor(m) ==
    /\ call.args.units > 0
    /\ call.args.fee = required_fee_for_margin(call.args.units, call.args.expenses, m)

RoundTripTargets == {t \in TargetDomain : FLe(Zero, t) /\ FLe(t, Num(95))}

\* C1 as stated: for units > 0, expenses >= 0 and a target m in [0, 95], the margin
\* of the solved fee is m again, from margin_from_fee and from compute_core
C1_RoundTripAnyExpenses ==
    \A m \in RoundTripTargets :
        /\ (IsCall("margin_from_fee") /\ FeeSolvedFor(m) /\ FLe(Zero, call.args.expenses))
              => FEq(call.ret, m)
        /\ (IsCall("compute_core") /\ FeeSolvedFor(m) /\ FLe(Zero, call.args.expenses))
              => FEq(call.ret.actual_margin_pct, m)

\* C1 amended: for units > 0, expenses > 0 and a target m in [0, 95], the margin of
\* the solved fee is m again, from margin_from_fee and from compute_core; with
\* expenses = 0 the solved fee is 0 and both report the zero-revenue margin 0
C1_RoundTrip ==
    \A m \in RoundTripTargets :
        /\ (IsCall("margin_from_fee") /\ FeeSolvedFor(m))
              => /\ FLt(Zero, call.args.expenses) => FEq(call.ret, m)
                 /\ FEq(call.args.expenses, Zero)
                       => FEq(call.args.fee, Zero) /\ FEq(call.ret, Zero)
        /\ (IsCall("compute_core") /\ FeeSolvedFor(m))
              => /\ FLt(Zero, call.args.expenses) => FEq(call.ret.actual_margin_pct, m)
                 /\ FEq(call.args.expenses, Zero)
                       => FEq(call.args.fee, Zero) /\ FEq(call.ret.actual_margin_pct, Zero)

C1_Witness ==
    /\ IsCall("compute_core")
    /\ FeeSolvedFor(Num(95))
    /\ FLt(Zero, call.args.expenses)
    /\ call.ret.actual_margin_pct = Num(95)

\* C2: required_fee_for_margin returns +inf whenever units <= 0, whatever the
\* expenses and the target margin are, in calculations.py and in the page's engine
C2_InfiniteFeeWithoutUnits ==
    /\ (IsCall("required_fee_for_margin") /\ call.args.units <= 0) => call.ret = PosInf
    /\ (IsCall("streamlit_app") /\ call.args.units <= 0) => call.break_even_fee = PosInf
    /\ (IsCall("streamlit_app") /\ call.args.units <= 0 /\ call.args.mode = "Target Margin")
          => call.fee = PosInf

C2_Witness ==
    /\ IsCall("required_fee_for_margin")
    /\ call.args.units = 0
    /\ call.args.expenses = Zero
    /\ call.ret = PosInf

ShowsNoNumber(text) == text.amount.body \in {"inf", "nan"}

NotAvailable == [prefix |-> "", amount |-> [body |-> "N/A", cents |-> 0]]

\* C3: when the required fee is the +inf sentinel the page shows the fee KPI as
\* "N/A" and formats no infinite or nan value into the KPI row
C3_SentinelShownAsNotAvailable ==
    (IsCall("streamlit_app") /\ call.fee = PosInf)
        => /\ call.kpi_fee = NotAvailable
           /\ ~ShowsNoNumber(call.kpi_profit[1])
           /\ ~ShowsNoNumber(call.kpi_profit[2])

ExpensesSum ==
    FAdd(FAdd(FAdd(allocated_manager_cost(call.args.salary, call.args.days,
                                          Num(FULL_TIME_DAYS)),
                   call.args.accounting),
              call.args.head_office),
         call.args.fixed_overhead)

\* C4 as stated: annual_expenses_total is the sum of the allocated manager cost and
\* the three flat costs, and is never negative, for any inputs
C4_ExpensesNeverNegative ==
    IsCall("annual_expenses_total")
        => call.ret = ExpensesSum /\ FLe(Zero, call.ret)

\* C4 amended: annual_expenses_total is the sum of the allocated manager cost and the
\* three flat costs; it is non-negative whenever the salary and the three flat costs
\* are non-negative (only the allocation fraction is clamped, no addend is)
C4_ExpensesSum ==
    IsCall("annual_expenses_total")
        => /\ call.ret = ExpensesSum
           /\ (/\ FLe(Zero, call.args.salary)
               /\ FLe(Zero, call.args.accounting)
               /\ FLe(Zero, call.args.head_office)
               /\ FLe(Zero, call.args.fixed_overhead))
                  => FLe(Zero, call.ret)

C4_Witness ==
    /\ IsCall("annual_expenses_total")
    /\ call.args.salary = Num(90000)
    /\ call.args.days = Num(-1)
    /\ call.args.accounting = Zero
    /\ call.args.head_office = Zero
    /\ call.args.fixed_overhead = Zero
    /\ call.ret = Zero

\* C5: for salary >= 0 and any days and baseline, allocated_manager_cost lies in
\* [0, salary], does not decrease as days grow, is 0 when days = 0 or
\* baseline <= 0, and is the salary at 5 days of a 5-day baseline
C5_AllocationBounded ==
    (IsCall("allocated_manager_cost") /\ FLe(Zero, call.args.salary))
        => /\ FLe(Zero, call.ret) /\ FLe(call.ret, call.args.salary)
           /\ \A d2 \in DaysDomain :
                 FLe(call.args.days, d2)
                    => FLe(call.ret, allocated_manager_cost(call.args.salary, d2,
                                                            call.args.baseline))
           /\ (call.args.days = Zero \/ FLe(call.args.baseline, Zero)) => call.ret = Zero
           /\ (call.args.days = Num(5) /\ call.args.baseline = Num(5))
                 => call.ret = call.args.salary

C5_Witness ==
    /\ IsCall("allocated_manager_cost")
    /\ call.args.salary = Num(90000)
    /\ call.args.days = Num(6)
    /\ call.args.baseline = Num(5)
    /\ call.ret = Num(90000)

\* the margin fraction the solver is specified to use: the percentage within [0, 95]
ClampedMargin(t) ==
    IF FLt(t, Zero) THEN Zero
    ELSE IF FLt(Num(95), t) THEN Fin(95, 100)
    ELSE FDiv(t, Hundred)

\* C6: for units > 0 a target above 95 gives the fee of 95 and a target below 0 the
\* fee of 0; for expenses >= 0 the fee is finite, non-negative and equal to
\* expenses / (1 - m) / (units * 12) with m the clamped margin
C6_TargetClamped ==
    (IsCall("required_fee_for_margin") /\ call.args.units > 0)
        => /\ FLt(Num(95), call.args.target)
                 => call.ret = required_fee_for_margin(call.args.units,
                                                       call.args.expenses, Num(95))
           /\ FLt(call.args.target, Zero)
                 => call.ret = required_fee_for_margin(call.args.units,
                                                       call.args.expenses, Zero)
           /\ FLe(Zero, call.args.expenses)
                 => /\ IsFin(call.ret)
                    /\ FLe(Zero, call.ret)
                    /\ call.ret = FDiv(FDiv(call.args.expenses,
                                            FSub(One, ClampedMargin(call.args.target))),
                                       Num(call.args.units * 12))

C6_Witness ==
    /\ IsCall("required_fee_for_margin")
    /\ call.args.units = 1
    /\ call.args.expenses = Num(150000)
    /\ call.args.target = Num(120)
    /\ call.ret = Num(250000)

\* C7: for units > 0 and expenses >= 0 the fee solved for a 0% margin makes
\* margin_from_fee return 0 and compute_core report annual_profit = 0, its annual
\* revenue subtotal being the annual expenses
C7_BreakEven ==
    /\ (IsCall("margin_from_fee") /\ FeeSolvedFor(Zero) /\ FLe(Zero, call.args.expenses))
          => FEq(call.ret, Zero)
    /\ (IsCall("compute_core") /\ FeeSolvedFor(Zero) /\ FLe(Zero, call.args.expenses))
          => /\ FEq(call.ret.annual_profit, Zero)
             /\ FEq(call.ret.annual_rev_subtotal, call.args.expenses)

C7_Witness ==
    /\ IsCall("compute_core")
    /\ call.args.units = 100
    /\ call.args.expenses = Num(150000)
    /\ call.args.fee = Num(125)
    /\ call.ret.annual_profit = Zero

\* C8: in every compute_core result each tax amount is 0.13 of its own subtotal, the
\* annual subtotal is 12 monthly subtotals, and each total is subtotal plus tax
\* (on the nan rollup of an infinite fee over zero units both sides are nan)
C8_TaxOnSubtotal ==
    IsCall("compute_core")
        => /\ call.ret.annual_hst = FMul(Fin(13, 100), call.ret.annual_rev_subtotal)
           /\ call.ret.monthly_hst = FMul(Fin(13, 100), call.ret.monthly_rev_subtotal)
           /\ call.ret.annual_rev_subtotal = FMul(Twelve, call.ret.monthly_rev_subtotal)
           /\ call.ret.annual_rev_total
                 = FAdd(call.ret.annual_rev_subtotal, call.ret.annual_hst)
           /\ call.ret.monthly_rev_total
                 = FAdd(call.ret.monthly_rev_subtotal, call.ret.monthly_hst)

C8_Witness ==
    /\ IsCall("compute_core")
    /\ call.args.units = 100
    /\ call.args.fee = Num(75)
    /\ call.ret.annual_rev_subtotal = Num(90000)
    /\ call.ret.annual_hst = Num(11700)
    /\ call.ret.monthly_hst = Num(975)
    /\ call.ret.annual_rev_total = Num(101700)

NonTaxFields ==
    {"monthly_rev_subtotal", "annual_rev_subtotal", "exp_annual", "exp_monthly",
     "monthly_profit", "annual_profit", "actual_margin_pct"}

\* C9: the rollup of the same units, fee and expenses under any other tax rate has
\* the same profits and margin; only the tax amounts and the totals with tax differ,
\* and profit is the pre-tax subtotal less the expenses
C9_TaxPassThrough ==
    IsCall("compute_core")
        => /\ \A rate \in TaxRates :
                 LET other == compute_core_at(rate, call.args.units, call.args.fee,
                                              call.args.expenses)
                 IN  \A f \in NonTaxFields : other[f] = call.ret[f]
           /\ call.ret.annual_profit
                 = FSub(call.ret.annual_rev_subtotal, call.args.expenses)
           /\ call.ret.monthly_profit
                 = FSub(call.ret.monthly_rev_subtotal, FDiv(call.args.expenses, Twelve))

C9_Witness ==
    /\ IsCall("compute_core")
    /\ FLt(Zero, call.ret.annual_profit)
    /\ FLt(Zero, call.ret.annual_hst)
    /\ compute_core_at(Zero, call.args.units, call.args.fee,
                       call.args.expenses).annual_hst = Zero
    /\ compute_core_at(Zero, call.args.units, call.args.fee,
                       call.args.expenses).annual_profit = call.ret.annual_profit

\* C10: for years >= 1 projection returns four series of exactly years entries, and
\* with growth_pct = 0 every year's fee, revenue and profit is that of year 1
C10_ProjectionShape ==
    (IsCall("projection") /\ call.args.years >= 1)
        => /\ Len(call.ret.fees) = call.args.years
           /\ Len(call.ret.revenues) = call.args.years
           /\ Len(call.ret.expenses) = call.args.years
           /\ Len(call.ret.profits) = call.args.years
           /\ call.args.growth = Zero
                 => \A k \in 1 .. call.args.years :
                        /\ call.ret.fees[k] = call.ret.fees[1]
                        /\ call.ret.revenues[k] = call.ret.revenues[1]
                        /\ call.ret.profits[k] = call.ret.profits[1]

C10_Witness ==
    /\ IsCall("projection")
    /\ call.args.years >= 2
    /\ call.args.growth = Zero
    /\ call.args.fee = Num(75)
    /\ call.args.units = 100
    /\ Len(call.ret.profits) = call.args.years
    /\ call.ret.revenues[call.args.years] = Num(90000)

RECURSIVE FPow(_, _)
FPow(b, e) == IF e = 0 THEN One ELSE FMul(b, FPow(b, e - 1))

\* C11: in year k of projection the fee is start_fee * (1 + growth_pct)^(k-1), the
\* revenue is that fee * units * 12, the expense is the input expenses_annual and the
\* profit is revenue less expenses_annual; year 1 has the start fee itself. The
\* page's profit loop compounds the same way on its percentage growth rate
C11_CompoundingFee ==
    /\ IsCall("projection")
          => \A k \in 1 .. Len(call.ret.fees) :
                LET fee_k == FMul(call.args.fee, FPow(FAdd(One, call.args.growth), k - 1))
                    rev_k == FMul(FMul(fee_k, Num(call.args.units)), Twelve)
                IN  /\ call.ret.fees[k] = fee_k
                    /\ call.ret.revenues[k] = rev_k
                    /\ call.ret.expenses[k] = call.args.expenses
                    /\ call.ret.profits[k] = FSub(rev_k, call.args.expenses)
                    /\ k = 1 => call.ret.fees[k] = call.args.fee
    /\ IsCall("streamlit_app")
          => /\ Len(call.profits) = call.args.years
             /\ \A k \in 1 .. Len(call.profits) :
                   LET rate  == FAdd(One, FDiv(call.args.growth_rate, Hundred))
                       fee_k == FMul(call.fee, FPow(rate, k - 1))
                   IN  call.profits[k]
                          = FSub(FMul(FMul(fee_k, Num(call.args.units)), Twelve),
                                 call.M.a_exp)

C11_Witness ==
    /\ IsCall("projection")
    /\ call.args.units = 100
    /\ call.args.fee = Num(75)
    /\ call.args.growth = Fin(1, 10)
    /\ call.args.expenses = Num(150000)
    /\ call.args.years = 3
    /\ call.ret.fees = <<Num(75), Fin(165, 2), Fin(363, 4)>>
    /\ call.ret.revenues[3] = Num(108900)
    /\ call.ret.profits[3] = Num(-41100)

IsReferenceCosts ==
    /\ call.args.salary = Num(90000)
    /\ call.args.days = Num(5)
    /\ call.args.accounting = Num(12000)
    /\ call.args.head_office = Num(18000)
    /\ call.args.fixed_overhead = Num(30000)

IsReferenceRollup ==
    /\ call.args.units = 100
    /\ call.args.fee = Num(75)
    /\ call.args.expenses = Num(150000)

\* C12: on the reference scenario (100 units at a fee of 75; salary 90000 at 5 days,
\* accounting 12000, head office 18000, fixed overhead 30000) annual_expenses_total
\* returns 150000 and compute_core returns an annual revenue subtotal of 90000, an
\* annual profit of -60000 and a margin that prints as -66.67
C12_ReferenceScenario ==
    /\ (IsCall("annual_expenses_total") /\ IsReferenceCosts) => call.ret = Num(150000)
    /\ (IsCall("compute_core") /\ IsReferenceRollup)
          => /\ call.ret.annual_rev_subtotal = Num(90000)
             /\ call.ret.annual_profit = Num(-60000)
             /\ PctText(call.ret.actual_margin_pct)
                   = [prefix |-> "-", amount |-> [body |-> "num", cents |-> 6667]]

C12_Witness ==
    /\ IsCall("compute_core")
    /\ IsReferenceRollup
    /\ call.ret.actual_margin_pct = Fin(-200, 3)
    /\ call.ret.exp_annual = annual_expenses_total(Num(90000), Num(5), Num(12000),
                                                   Num(18000), Num(30000))

CoreFunctions ==
    {"allocated_manager_cost", "annual_expenses_total", "required_fee_for_margin",
     "margin_from_fee", "compute_core", "projection"}

\* the call ended in an error (a ZeroDivisionError) instead of returning its value
Raised ==
    IF call.fn = "compute_core"
    THEN \E f \in DOMAIN call.ret : call.ret[f].k = "err"
    ELSE IF call.fn = "projection"
    THEN \E f \in DOMAIN call.ret :
            \E k \in 1 .. Len(call.ret[f]) : call.ret[f][k].k = "err"
    ELSE call.ret.k = "err"

\* C13: every core function returns a value on every input, units <= 0,
\* baseline_days <= 0, a zero fee, zero revenue and a target margin outside [0, 95]
\* included: no call ends in a division by zero
C13_NoErrorState ==
    call.fn \in CoreFunctions => ~Raised

C13_Witness ==
    /\ IsCall("margin_from_fee")
    /\ call.args.units = 100
    /\ call.args.fee = Zero
    /\ call.args.expenses = Num(150000)
    /\ call.ret = Zero

\* the annual profit of the scenario on the page: the pre-tax revenue of the fee shown
\* less the annual expenses of the cost inputs
ScenarioProfit ==
    FSub(FMul(FMul(call.fee, Num(call.args.units)), Twelve),
         annual_expenses_total(call.args.manager_salary, call.args.manager_days,
                               call.args.accounting, call.args.head_office,
                               call.args.fixed_overhead))

\* C14: on every input the form admits, in either mode, the page shows the
\* negative-margin warning exactly when the annual revenue subtotal less the annual
\* expenses is below zero (the warning is the one failure message of the script)
C14_WarningIffLoss ==
    IsCall("streamlit_app") => (call.error <=> FLt(ScenarioProfit, Zero))

C14_Witness ==
    /\ IsCall("streamlit_app")
    /\ call.args.mode = "Price per unit"
    /\ call.args.units = 100
    /\ call.fee = Num(75)
    /\ call.M.a_exp = Num(96000)
    /\ call.M.a_profit = Num(-6000)
    /\ call.error

\* C15: compute_core reports the margin margin_from_fee returns on the same units, fee
\* and expenses, the zero-revenue 0 included, and its annual profit is 12 monthly
\* profits (an infinite fee makes both margins nan)
C15_MarginsAgree ==
    IsCall("compute_core")
        => /\ call.ret.actual_margin_pct
                 = margin_from_fee(call.args.units, call.args.fee, call.args.expenses)
           /\ FEq(call.ret.annual_rev_subtotal, Zero) => call.ret.actual_margin_pct = Zero
           /\ call.ret.annual_profit = FMul(Twelve, call.ret.monthly_profit)

C15_Witness ==
    /\ IsCall("compute_core")
    /\ call.args.units = -1
    /\ call.args.fee = Num(75)
    /\ call.args.expenses = Num(100)
    /\ call.ret.annual_rev_subtotal = Num(-900)
    /\ call.ret.actual_margin_pct = Fin(1000, 9)
    /\ call.ret.monthly_profit = Fin(-250, 3)
    /\ call.ret.annual_profit = Num(-1000)

\* annual_expenses_total of calculations.py on the page's cost inputs
LibExpenses ==
    annual_expenses_total(call.args.manager_salary, call.args.manager_days,
                          call.args.accounting, call.args.head_office,
                          call.args.fixed_overhead)

\* C16: on every input the form admits (units >= 0, days in 1..5, costs >= 0, target
\* in [0, 95]) the page's solver, margin and metrics are those of calculations.py
\* applied to annual_expenses_total of the same cost inputs
C16_EnginesAgree ==
    IsCall("streamlit_app")
        => LET expenses == LibExpenses
               core     == compute_core(call.args.units, call.fee, expenses)
           IN
           /\ call.args.mode = "Target Margin"
                 => call.fee = required_fee_for_margin(call.args.units, expenses,
                                                       call.args.target_margin)
           /\ call.break_even_fee
                 = required_fee_for_margin(call.args.units, expenses, Zero)
           /\ call.args.mode = "Price per unit"
                 => call.margin = margin_from_fee(call.args.units, call.args.fee_input,
                                                  expenses)
           /\ call.M.manager_alloc
                 = allocated_manager_cost(call.args.manager_salary,
                                          call.args.manager_days, Num(FULL_TIME_DAYS))
           /\ call.M.m_rev_sub = core.monthly_rev_subtotal
           /\ call.M.a_rev_sub = core.annual_rev_subtotal
           /\ call.M.m_hst = core.monthly_hst
           /\ call.M.a_hst = core.annual_hst
           /\ call.M.m_rev_tot = core.monthly_rev_total
           /\ call.M.a_rev_tot = core.annual_rev_total
           /\ call.M.a_exp = core.exp_annual
           /\ call.M.m_exp = core.exp_monthly
           /\ call.M.a_profit = core.annual_profit
           /\ call.M.m_profit = core.monthly_profit

C16_Witness ==
    /\ IsCall("streamlit_app")
    /\ call.args.mode = "Target Margin"
    /\ call.args.units = 100
    /\ call.args.target_margin = Num(20)
    /\ call.args.manager_days = Num(3)
    /\ LibExpenses = Num(114000)
    /\ call.fee = Fin(475, 4)
    /\ call.break_even_fee = Num(95)
    /\ call.M.a_profit = Num(28500)
=============================================================================
